---- MODULE Spec2Model ----
(***************************************************************************)
(* PDF-Tiler (src/app.py): the tiler (tile_image), the blank classifier    *)
(* (is_blank_tile, is_border_frame, detect_rectangular_border) and the     *)
(* page loop of the /upload handler (upload_file).                         *)
(*                                                                         *)
(* Images are not stored pixel by pixel.  A page raster is a record        *)
(* [w, h, pat] whose pixel at (x, y) is computed by PagePixel from the     *)
(* drawing `pat`; a tile is the record Image.crop / Image.new / paste      *)
(* produce from it: a canvas of w x h pixels whose top-left cw x ch        *)
(* pixels are the page's pixels from (ox, oy) on, the rest white.          *)
(* All statistics of the classifier are computed over these pixels.        *)
(***************************************************************************)
EXTENDS Integers, Sequences, FiniteSets, TLC

VARIABLES
    TILE_SIZE,          \* tile_size handed to tile_image
    OVERLAP,            \* overlap handed to tile_image
    BLANK_THRESHOLD,    \* threshold handed to is_blank_tile, a fraction [num, den]
    call,               \* one call of a pure function: its arguments and its result
    rq,                 \* the /upload requests being handled: request id -> locals
    history_file,       \* contents of HISTORY_FILE: the list of history entries
    output_files        \* the files written under OUTPUT_FOLDER: <<conversion_id, filename>>

vars == <<TILE_SIZE, OVERLAP, BLANK_THRESHOLD, call, rq, history_file, output_files>>

-----------------------------------------------------------------------------
(* Bounds of the model *)

MaxDim == 7             \* largest page width / height of the tiler's inputs
MaxTile == 4            \* largest tile_size of the tiler's inputs
MaxSide == 24           \* largest side of the classifier's input tiles
UploadSide == 22        \* TILE_SIZE of the /upload requests of the model
MaxPages == 2           \* most pages of an uploaded document
MaxEdge == 120          \* largest height and width given to is_border_frame alone

-----------------------------------------------------------------------------
(* Python arithmetic *)

Min(a, b) == IF a < b THEN a ELSE b

Max(a, b) == IF a > b THEN a ELSE b

\* Python's a // b on integers: the floor of a / b, for either sign of b (b # 0)
FloorDiv(a, b) == IF b > 0 THEN a \div b ELSE (0 - a) \div (0 - b)

-----------------------------------------------------------------------------
(* Page rasters *)

White == <<255, 255, 255>>

Black == <<0, 0, 0>>

\* A page raster of w x h pixels showing the drawing pat
Page(w, h, pat) == [w |-> w, h |-> h, pat |-> pat]

NearWhite == <<245, 245, 245>>

Cream == <<255, 255, 200>>

Grey == <<100, 100, 100>>

DarkGrey == <<90, 90, 90>>

Red == <<255, 0, 0>>

\* Drawings.  "solid": colour a everywhere.  "checker": colours a and b
\* alternating pixel by pixel.  "frame": a rectangular outline of colour a,
\* t pixels thick, k pixels in from the page's edges, on colour b.
\* "vsplit" / "hsplit": colour a left of (above) the middle, b from there on.
\* "block": a checkerboard of a and b on the top-left k x t pixels, white
\* elsewhere.  "mat": the outline of "frame" in black, on a checkerboard of
\* a and b.
Solid(a) == [kind |-> "solid", a |-> a, b |-> a, k |-> 0, t |-> 0]

Checker(a, b) == [kind |-> "checker", a |-> a, b |-> b, k |-> 0, t |-> 0]

Frame(a, b, k, t) == [kind |-> "frame", a |-> a, b |-> b, k |-> k, t |-> t]

VSplit(a, b) == [kind |-> "vsplit", a |-> a, b |-> b, k |-> 0, t |-> 0]

HSplit(a, b) == [kind |-> "hsplit", a |-> a, b |-> b, k |-> 0, t |-> 0]

Block(a, b, k, t) == [kind |-> "block", a |-> a, b |-> b, k |-> k, t |-> t]

Mat(a, b, k, t) == [kind |-> "mat", a |-> a, b |-> b, k |-> k, t |-> t]

\* (x, y) lies on the outline of Frame(_, _, k, t) drawn on a w x h page
OnFrame(w, h, k, t, x, y) ==
    /\ k <= x /\ x < w - k /\ k <= y /\ y < h - k
    /\ ~ (k + t <= x /\ x < w - k - t /\ k + t <= y /\ y < h - k - t)

\* The pixel of a page at (x, y).  Image.crop fills what lies outside the
\* image with zeros.
PagePixel(page, x, y) ==
    LET p == page.pat
    IN  IF x < 0 \/ y < 0 \/ x >= page.w \/ y >= page.h THEN Black
        ELSE CASE p.kind = "solid" -> p.a
               [] p.kind = "checker" -> IF (x + y) % 2 = 0 THEN p.a ELSE p.b
               [] p.kind = "frame" ->
                    IF OnFrame(page.w, page.h, p.k, p.t, x, y) THEN p.a ELSE p.b
               [] p.kind = "vsplit" -> IF x < page.w \div 2 THEN p.a ELSE p.b
               [] p.kind = "hsplit" -> IF y < page.h \div 2 THEN p.a ELSE p.b
               [] p.kind = "block" ->
                    IF x < p.k /\ y < p.t
                    THEN (IF (x + y) % 2 = 0 THEN p.a ELSE p.b)
                    ELSE White
               [] p.kind = "mat" ->
                    IF OnFrame(page.w, page.h, p.k, p.t, x, y) THEN Black
                    ELSE IF (x + y) % 2 = 0 THEN p.a ELSE p.b

\* The pixel of a tile at (x, y): the pasted crop, white canvas around it
Pixel(img, x, y) ==
    IF x < img.cw /\ y < img.ch THEN PagePixel(img.page, img.ox + x, img.oy + y)
    ELSE White

-----------------------------------------------------------------------------
(* Pixel statistics (numpy) *)

WHITE_LEVEL == 240      \* img_array > 240, center_mean > 240
STD_BLANK == 5          \* std_dev < 5
EDGE_LEVEL == 30        \* edges > 30
MIN_BORDER == 10        \* max(..., 10)
BORDER_STD == 15        \* border_std > 15
CENTER_STD == 8         \* center_std < 8

RECURSIVE SumTo(_, _)
\* f[0] + ... + f[n-1]
SumTo(f, n) == IF n = 0 THEN 0 ELSE f[n - 1] + SumTo(f, n - 1)

\* The sum of f[y][x] over the sub-array f[y0:y1, x0:x1]
SumRegion(f, y0, y1, x0, x1) ==
    IF y1 <= y0 \/ x1 <= x0 THEN 0
    ELSE SumTo([j \in 0..(y1 - y0 - 1) |->
                   SumTo([i \in 0..(x1 - x0 - 1) |-> f[y0 + j][x0 + i]], x1 - x0)],
               y1 - y0)

\* np.array(image.convert('L')): the luminance of an RGB pixel,
\* (19595 R + 38470 G + 7471 B + 32768) >> 16
Luminance(rgb) == (rgb[1] * 19595 + rgb[2] * 38470 + rgb[3] * 7471 + 32768) \div 65536

\* gray_array: a 2-D array is [h, w, at] with at[y][x] its element, from 0
GrayArray(img) ==
    [h |-> img.h, w |-> img.w,
     at |-> [y \in 0..(img.h - 1) |-> [x \in 0..(img.w - 1) |-> Luminance(Pixel(img, x, y))]]]

\* The sample count, the sum and the sum of squares of gray[y0:y1, x0:x1]
RegionStats(gray, y0, y1, x0, x1) ==
    [n |-> Max(0, y1 - y0) * Max(0, x1 - x0),
     sum |-> SumRegion(gray.at, y0, y1, x0, x1),
     sumsq |-> SumRegion([y \in 0..(gray.h - 1) |-> [x \in 0..(gray.w - 1) |->
                             gray.at[y][x] * gray.at[y][x]]],
                         y0, y1, x0, x1)]

\* The same over all 3 * w * h channel samples of img_array
ChannelStats(img) ==
    LET s1 == [y \in 0..(img.h - 1) |-> [x \in 0..(img.w - 1) |->
                  LET p == Pixel(img, x, y) IN p[1] + p[2] + p[3]]]
        s2 == [y \in 0..(img.h - 1) |-> [x \in 0..(img.w - 1) |->
                  LET p == Pixel(img, x, y) IN p[1] * p[1] + p[2] * p[2] + p[3] * p[3]]]
    IN  [n |-> 3 * img.w * img.h,
         sum |-> SumRegion(s1, 0, img.h, 0, img.w),
         sumsq |-> SumRegion(s2, 0, img.h, 0, img.w)]

\* np.std(samples) >= k / c, decided exactly in integers.  With sum = q n + r
\* the variance is (n T - r^2) / n^2 for T = sumsq - q^2 n - 2 q r, so the
\* test is n (c^2 T - k^2 n) >= c^2 r^2, evaluated without leaving 32 bits.
StdAtLeast(st, k, c) ==
    LET q == st.sum \div st.n
        r == st.sum % st.n
        T == st.sumsq - q * q * st.n - 2 * q * r
        U == c * c * T - k * k * st.n
    IN  IF U < 0 THEN FALSE
        ELSE IF U >= c * c * st.n THEN TRUE
        ELSE st.n * U >= c * c * r * r

RECURSIVE StdSearch(_, _, _)
\* the largest k in lo..hi with np.std >= k / 10 (lo qualifies)
StdSearch(st, lo, hi) ==
    IF lo = hi THEN lo
    ELSE LET mid == (lo + hi + 1) \div 2
         IN  IF StdAtLeast(st, mid, 10) THEN StdSearch(st, mid, hi)
             ELSE StdSearch(st, lo, mid - 1)

\* np.std(samples) in tenths, rounded down (a standard deviation of 8-bit
\* samples is at most 127.5)
StdTenths(st) == StdSearch(st, 0, 1275)

-----------------------------------------------------------------------------
(* tile_image *)

\* image.crop((left, top, right, bottom))
Crop(page, left, top, right, bottom) ==
    [w |-> right - left, h |-> bottom - top,
     cw |-> right - left, ch |-> bottom - top,
     ox |-> left, oy |-> top, page |-> page]

PadNoHeight(tile, tile_size) ==
    IF tile.w # tile_size
    THEN [tile EXCEPT !.w = tile_size, !.h = tile_size]
    ELSE tile

\* the padding of an undersized crop: Image.new('RGB', (tile_size, tile_size),
\* white) with the crop pasted at (0, 0)
Pad(tile, tile_size) ==
    IF <<tile.w, tile.h>> # <<tile_size, tile_size>>
    THEN [tile EXCEPT !.w = tile_size, !.h = tile_size,
                      !.cw = Min(tile.cw, tile_size), !.ch = Min(tile.ch, tile_size)]
    ELSE tile

GridCountTruncated(extent, overlap, step) == Max(1, (extent - overlap) \div step)

GridCountNoMax(extent, overlap, step) == FloorDiv(extent - overlap + step - 1, step)

GridCountPlusOne(extent, overlap, step) == Max(1, FloorDiv(extent - overlap + step, step))

\* cols / rows: max(1, (extent - overlap + step - 1) // step)
GridCount(extent, overlap, step) ==
    Max(1, FloorDiv(extent - overlap + step - 1, step))

WindowNoShift(extent, tile_size, step, idx) ==
    [lo |-> idx * step, hi |-> Min(idx * step + tile_size, extent)]

WindowShiftByStep(extent, tile_size, step, idx) ==
    LET lo == idx * step
        hi == Min(lo + tile_size, extent)
    IN  IF hi - lo < tile_size /\ idx > 0
        THEN [lo |-> Max(0, hi - step), hi |-> hi]
        ELSE [lo |-> lo, hi |-> hi]

WindowShiftAfterFirst(extent, tile_size, step, idx) ==
    LET lo == idx * step
        hi == Min(lo + tile_size, extent)
    IN  IF hi - lo < tile_size /\ idx > 1
        THEN [lo |-> Max(0, hi - tile_size), hi |-> hi]
        ELSE [lo |-> lo, hi |-> hi]

\* One axis of the body of the loop: the window [lo, hi) of grid index idx
Window(extent, tile_size, step, idx) ==
    LET lo == idx * step
        hi == Min(lo + tile_size, extent)
    IN  IF hi - lo < tile_size /\ idx > 0
        THEN [lo |-> Max(0, hi - tile_size), hi |-> hi]
        ELSE [lo |-> lo, hi |-> hi]

\* The tuple appended for grid cell (row, col)
TileAt(page, tile_size, step, row, col) ==
    LET wx == Window(page.w, tile_size, step, col)
        wy == Window(page.h, tile_size, step, row)
    IN  [img |-> Pad(Crop(page, wx.lo, wy.lo, wx.hi, wy.hi), tile_size),
         row |-> row, col |-> col,
         left |-> wx.lo, top |-> wy.lo, right |-> wx.hi, bottom |-> wy.hi]

tile_image_colmajor(page, tile_size, overlap) ==
    LET step == tile_size - overlap
        cols == GridCount(page.w, overlap, step)
        rows == GridCount(page.h, overlap, step)
    IN  IF step = 0 THEN [raised |-> TRUE, tiles |-> <<>>]
        ELSE [raised |-> FALSE,
              tiles |-> [n \in 1..(rows * cols) |->
                            TileAt(page, tile_size, step, (n - 1) % rows, (n - 1) \div rows)]]

\* tile_image(image, tile_size, overlap): the list of tiles in the order of
\* the loops (rows outer, columns inner); raised when the division by step
\* raises ZeroDivisionError
tile_image(page, tile_size, overlap) ==
    LET step == tile_size - overlap
        cols == GridCount(page.w, overlap, step)
        rows == GridCount(page.h, overlap, step)
    IN  IF step = 0 THEN [raised |-> TRUE, tiles |-> <<>>]
        ELSE [raised |-> FALSE,
              tiles |-> [n \in 1..(rows * cols) |->
                            TileAt(page, tile_size, step, (n - 1) \div cols, (n - 1) % cols)]]

-----------------------------------------------------------------------------
(* is_blank_tile, is_border_frame, detect_rectangular_border *)

\* np.sum(np.all(img_array > 240, axis=2))
WhiteCount(img) ==
    Cardinality({p \in (0..(img.w - 1)) \X (0..(img.h - 1)) :
                    LET c == Pixel(img, p[1], p[2])
                    IN  c[1] > WHITE_LEVEL /\ c[2] > WHITE_LEVEL /\ c[3] > WHITE_LEVEL})

\* One element of np.abs(np.diff(gray_array)) for the adjacent samples a
\* (lower index) and b (higher index).  gray_array is uint8, so np.diff
\* subtracts modulo 256 and np.abs finds nothing to change.
Gradient(a, b) == (b - a) % 256

\* edges_h = np.abs(np.diff(gray_array, axis=0)), shape (h - 1, w)
EdgesH(gray) ==
    [h |-> Max(0, gray.h - 1), w |-> gray.w,
     at |-> [y \in 0..(gray.h - 2) |-> [x \in 0..(gray.w - 1) |->
                Gradient(gray.at[y][x], gray.at[y + 1][x])]]]

\* edges_v = np.abs(np.diff(gray_array, axis=1)), shape (h, w - 1)
EdgesV(gray) ==
    [h |-> gray.h, w |-> Max(0, gray.w - 1),
     at |-> [y \in 0..(gray.h - 1) |-> [x \in 0..(gray.w - 2) |->
                Gradient(gray.at[y][x], gray.at[y][x + 1])]]]

\* The positions of an array, as <<y, x>>
Positions(arr) == (0..(arr.h - 1)) \X (0..(arr.w - 1))

\* np.sum(edges > 30)
SignificantCount(edges) ==
    Cardinality({p \in Positions(edges) : edges.at[p[1]][p[2]] > EDGE_LEVEL})

BorderMaskTopLeft(arr, b, y, x) == y < b \/ x < b

\* border_mask[y][x] after the four slice assignments [:b, :], [-b:, :],
\* [:, :b], [:, -b:] on an array of the shape of arr
BorderMask(arr, b, y, x) ==
    y < b \/ y >= arr.h - b \/ x < b \/ x >= arr.w - b

\* np.sum((edges > 30) & border_mask)
BorderCount(edges, b) ==
    Cardinality({p \in Positions(edges) :
                    edges.at[p[1]][p[2]] > EDGE_LEVEL /\ BorderMask(edges, b, p[1], p[2])})

\* np.sum((edges > 30) & ~border_mask)
CenterCount(edges, b) ==
    Cardinality({p \in Positions(edges) :
                    edges.at[p[1]][p[2]] > EDGE_LEVEL /\ ~ BorderMask(edges, b, p[1], p[2])})

border_thickness_rounded(height, width) ==
    Max((Min(height, width) + 5) \div 10, MIN_BORDER)

\* border_thickness = max(int(min(height, width) * 0.1), 10); the product
\* with the double 0.1 truncates to min(height, width) // 10
border_thickness(height, width) == Max(Min(height, width) \div 10, MIN_BORDER)

\* The four border strips of detect_rectangular_border, as RegionStats
BorderStrips(gray, b) ==
    << RegionStats(gray, 0, Min(b, gray.h), 0, gray.w),
       RegionStats(gray, Max(0, gray.h - b), gray.h, 0, gray.w),
       RegionStats(gray, 0, gray.h, 0, Min(b, gray.w)),
       RegionStats(gray, 0, gray.h, Max(0, gray.w - b), gray.w) >>

\* The sum of the four strips' standard deviations, each in tenths rounded
\* down.  border_std > 15 is read off this sum; the sum decides it unless it
\* lies in 597..600.
BorderStdTenths(gray, b) ==
    LET s == BorderStrips(gray, b)
    IN  StdTenths(s[1]) + StdTenths(s[2]) + StdTenths(s[3]) + StdTenths(s[4])

\* detect_rectangular_border(gray_array, border_thickness)
detect_rectangular_border(gray, b) ==
    LET center == RegionStats(gray, b, gray.h - b, b, gray.w - b)
    IN  IF center.n = 0 THEN FALSE
        ELSE /\ BorderStdTenths(gray, b) >= 4 * 10 * BORDER_STD
             /\ ~ StdAtLeast(center, CENTER_STD, 1)
             /\ center.sum > WHITE_LEVEL * center.n

EdgeRatioCheckNoCenter(gray, edges_h, edges_v, b) ==
    LET border_edges == BorderCount(edges_h, b) + BorderCount(edges_v, b)
        center_edges == CenterCount(edges_h, b) + CenterCount(edges_v, b)
        total_edges == border_edges + center_edges
    IN  /\ total_edges > 0
        /\ border_edges * 10 > 8 * total_edges

\* The first test of is_border_frame: total_edges > 0 and
\* border_ratio > 0.8 and center_edges < width * height * 0.002
EdgeRatioCheck(gray, edges_h, edges_v, b) ==
    LET border_edges == BorderCount(edges_h, b) + BorderCount(edges_v, b)
        center_edges == CenterCount(edges_h, b) + CenterCount(edges_v, b)
        total_edges == border_edges + center_edges
    IN  /\ total_edges > 0
        /\ border_edges * 10 > 8 * total_edges
        /\ center_edges * 1000 < gray.w * gray.h * 2

is_border_frame_edges_only(gray, edges_h, edges_v) ==
    EdgeRatioCheck(gray, edges_h, edges_v, border_thickness(gray.h, gray.w))

\* is_border_frame(gray_array, edges_h, edges_v)
is_border_frame(gray, edges_h, edges_v) ==
    LET b == border_thickness(gray.h, gray.w)
    IN  IF EdgeRatioCheck(gray, edges_h, edges_v, b) THEN TRUE
        ELSE detect_rectangular_border(gray, b)

AboveOrAtThreshold(white, area, threshold) == white * threshold.den >= threshold.num * area

\* white_percentage > threshold, for the fraction threshold = num / den
AboveThreshold(white, area, threshold) == white * threshold.den > threshold.num * area

is_blank_tile_return_no_frame(img, threshold) ==
    IF AboveThreshold(WhiteCount(img), img.w * img.h, threshold) THEN 1
    ELSE IF ~ StdAtLeast(ChannelStats(img), STD_BLANK, 1) THEN 2
    ELSE LET gray == GrayArray(img)
             significant_edges == SignificantCount(EdgesH(gray)) + SignificantCount(EdgesV(gray))
         IN  IF significant_edges * 1000 < img.w * img.h THEN 3 ELSE 0

is_blank_tile_return_white_kept(img, threshold) ==
    IF AboveThreshold(WhiteCount(img), img.w * img.h, threshold) THEN 0
    ELSE IF ~ StdAtLeast(ChannelStats(img), STD_BLANK, 1) THEN 2
    ELSE LET gray == GrayArray(img)
             edges_h == EdgesH(gray)
             edges_v == EdgesV(gray)
             significant_edges == SignificantCount(edges_h) + SignificantCount(edges_v)
         IN  IF significant_edges * 1000 < img.w * img.h THEN 3
             ELSE IF is_border_frame(gray, edges_h, edges_v) THEN 4
             ELSE 0

\* is_blank_tile(image, threshold), as the return statement that is taken:
\* 1..4 for the `return True` of method 1..4, 0 for the final `return False`
is_blank_tile_return(img, threshold) ==
    IF AboveThreshold(WhiteCount(img), img.w * img.h, threshold) THEN 1
    ELSE IF ~ StdAtLeast(ChannelStats(img), STD_BLANK, 1) THEN 2
    ELSE LET gray == GrayArray(img)
             edges_h == EdgesH(gray)
             edges_v == EdgesV(gray)
             significant_edges == SignificantCount(edges_h) + SignificantCount(edges_v)
         IN  IF significant_edges * 1000 < img.w * img.h THEN 3
             ELSE IF is_border_frame(gray, edges_h, edges_v) THEN 4
             ELSE 0

\* is_blank_tile(image, threshold)
is_blank_tile(img, threshold) == is_blank_tile_return(img, threshold) # 0

-----------------------------------------------------------------------------
(* Calls of the pure functions *)

NoRequests == [r \in {} |-> 0]

DEFAULT_THRESHOLD == [num |-> 98, den |-> 100]

\* tile_image is called with some page and some valid (tile_size, overlap)
InitTiler ==
    /\ TILE_SIZE \in 1..MaxTile
    /\ OVERLAP \in 0..(TILE_SIZE - 1)
    /\ BLANK_THRESHOLD = DEFAULT_THRESHOLD
    /\ \E w \in 1..MaxDim, h \in 1..MaxDim :
          call = [fn |-> "tile_image", pc |-> "call",
                  image |-> Page(w, h, Solid(White)), ret |-> <<>>]
    /\ rq = NoRequests
    /\ history_file = <<>>
    /\ output_files = {}

\* tiles = tile_image(image, tile_size=TILE_SIZE, overlap=OVERLAP)
CallTileImage ==
    /\ call.fn = "tile_image" /\ call.pc = "call"
    /\ call' = [call EXCEPT !.pc = "return",
                            !.ret = tile_image(call.image, TILE_SIZE, OVERLAP)]
    /\ UNCHANGED <<TILE_SIZE, OVERLAP, BLANK_THRESHOLD, rq, history_file, output_files>>

SpecTiler == InitTiler /\ [][CallTileImage]_vars

-----------------------------------------------------------------------------
(* The tiler's properties *)

\* tile_image has returned its list
TilerReturned == call.fn = "tile_image" /\ call.pc = "return"

\* tile_size >= 1 and 0 <= overlap < tile_size
ValidGrid == TILE_SIZE >= 1 /\ 0 <= OVERLAP /\ OVERLAP < TILE_SIZE

\* The least integer q with q * b >= a, for b > 0: ceil(a / b)
CeilDiv(a, b) ==
    CHOOSE q \in (0 - (MaxDim + MaxTile))..(MaxDim + MaxTile) : q * b >= a /\ (q - 1) * b < a

\* C1: coverage.  For a page of width, height >= 1 and a valid
\* (tile_size, overlap), every pixel (x, y) of the page lies in the crop
\* window (before padding) of at least one returned tile.
C1_Coverage ==
    (TilerReturned /\ ValidGrid /\ call.image.w >= 1 /\ call.image.h >= 1) =>
        \A x \in 0..(call.image.w - 1), y \in 0..(call.image.h - 1) :
            \E n \in DOMAIN call.ret.tiles :
                LET tl == call.ret.tiles[n]
                IN  tl.left <= x /\ x < tl.right /\ tl.top <= y /\ y < tl.bottom

\* A page wider and higher than a tile, with overlapping tiles, whose last
\* column and row are partial strips
C1_Witness ==
    /\ TilerReturned /\ ValidGrid /\ OVERLAP > 0
    /\ call.image.w > TILE_SIZE /\ call.image.h > TILE_SIZE
    /\ (call.image.w - OVERLAP) % (TILE_SIZE - OVERLAP) # 0
    /\ (call.image.h - OVERLAP) % (TILE_SIZE - OVERLAP) # 0
    /\ Len(call.ret.tiles) >= 4

\* C2: every returned tile is tile_size x tile_size: no crop window is wider
\* or higher than tile_size, and a smaller crop sits on a tile_size x
\* tile_size canvas.
C2_TileSize ==
    (TilerReturned /\ ValidGrid /\ call.image.w >= 1 /\ call.image.h >= 1) =>
        \A n \in DOMAIN call.ret.tiles :
            LET tl == call.ret.tiles[n]
            IN  /\ tl.right - tl.left <= TILE_SIZE
                /\ tl.bottom - tl.top <= TILE_SIZE
                /\ tl.img.w = TILE_SIZE /\ tl.img.h = TILE_SIZE
                /\ tl.img.cw = tl.right - tl.left /\ tl.img.ch = tl.bottom - tl.top

\* Several tiles whose crops are as wide as a tile but lower, so that they
\* are padded in height only
C2_Witness ==
    /\ TilerReturned /\ ValidGrid
    /\ \E n \in DOMAIN call.ret.tiles :
          LET tl == call.ret.tiles[n]
          IN  /\ tl.right - tl.left = TILE_SIZE
              /\ tl.bottom - tl.top < TILE_SIZE
              /\ tl.img.h = TILE_SIZE
    /\ Len(call.ret.tiles) >= 2

\* C4: with step = tile_size - overlap > 0 the list holds exactly one tile
\* for each cell (row, col) of the grid of rows x cols cells, where
\* cols = max(1, ceil((width - overlap) / step)) and rows likewise, and
\* (extent - overlap + step - 1) // step is that ceiling for every extent,
\* also below overlap.
C4_GridCells ==
    (TilerReturned /\ ValidGrid) =>
        LET step == TILE_SIZE - OVERLAP
            cols == Max(1, CeilDiv(call.image.w - OVERLAP, step))
            rows == Max(1, CeilDiv(call.image.h - OVERLAP, step))
        IN  /\ FloorDiv(call.image.w - OVERLAP + step - 1, step)
                  = CeilDiv(call.image.w - OVERLAP, step)
            /\ FloorDiv(call.image.h - OVERLAP + step - 1, step)
                  = CeilDiv(call.image.h - OVERLAP, step)
            /\ Len(call.ret.tiles) = rows * cols
            /\ \A row \in 0..(rows - 1), col \in 0..(cols - 1) :
                  Cardinality({n \in DOMAIN call.ret.tiles :
                                  call.ret.tiles[n].row = row /\ call.ret.tiles[n].col = col}) = 1

\* A page narrower than the overlap (the ceiling is not positive) with
\* several rows
C4_Witness ==
    /\ TilerReturned /\ ValidGrid
    /\ call.image.w < OVERLAP
    /\ Len(call.ret.tiles) >= 3

-----------------------------------------------------------------------------
(* Calls of is_blank_tile *)

\* Sides of the tiles handed to the classifier: below, at and above the
\* sides at which the border band of thickness 10 leaves a center
Sides == {8, 20, 21, 22, MaxSide}

ColourPairs ==
    { <<Black, White>>, <<White, Black>>, <<Grey, DarkGrey>>, <<DarkGrey, Grey>>,
      <<NearWhite, White>>, <<Red, White>>, <<Cream, White>> }

Drawings ==
    {Solid(c) : c \in {White, Black, NearWhite, Cream, Grey, Red}}
    \cup {Checker(p[1], p[2]) : p \in ColourPairs}
    \cup {VSplit(p[1], p[2]) : p \in ColourPairs}
    \cup {HSplit(p[1], p[2]) : p \in ColourPairs}
    \cup {Frame(c, White, k, t) : c \in {Black, Grey}, k \in {0, 3}, t \in {1, 3}}
    \cup {Frame(Black, White, 1, 11), Block(Black, White, 12, 12), Block(Black, White, 4, 30)}
    \cup {Mat(NearWhite, White, 0, 1), Mat(White, NearWhite, 0, 2)}

Thresholds == {DEFAULT_THRESHOLD, [num |-> 1, den |-> 2], [num |-> 1, den |-> 1]}

\* The tile tile_image cuts from a page of w x h pixels with tile_size = side
\* (and no overlap) at cell (0, 0): the whole page, padded if w or h < side
FirstTile(w, h, pat, side) == TileAt(Page(w, h, pat), side, side, 0, 0).img

\* is_blank_tile is called with a tile the tiler can produce: a full one, or
\* one whose page was 3 pixels narrower than the tile
InitClassifier ==
    /\ TILE_SIZE \in Sides
    /\ OVERLAP = 0
    /\ BLANK_THRESHOLD \in Thresholds
    /\ \E pat \in Drawings, narrower \in {0, 3} :
          call = [fn |-> "is_blank_tile", pc |-> "call",
                  image |-> FirstTile(TILE_SIZE - narrower, TILE_SIZE, pat, TILE_SIZE),
                  ret |-> 0]
    /\ rq = NoRequests
    /\ history_file = <<>>
    /\ output_files = {}

\* is_blank_tile(tile_img, threshold=BLANK_THRESHOLD)
CallIsBlankTile ==
    /\ call.fn = "is_blank_tile" /\ call.pc = "call"
    /\ call' = [call EXCEPT !.pc = "return",
                            !.ret = is_blank_tile_return(call.image, BLANK_THRESHOLD)]
    /\ UNCHANGED <<TILE_SIZE, OVERLAP, BLANK_THRESHOLD, rq, history_file, output_files>>

SpecClassifier == InitClassifier /\ [][CallIsBlankTile]_vars

\* What the classifier returned, by drawing, for inspection
ClassifierReturned == call.fn = "is_blank_tile" /\ call.pc = "return"

-----------------------------------------------------------------------------
(* The classifier's properties *)

\* The tenths of BorderStdTenths decide border_std > 15 for this tile: the
\* tile has no center, or the sum of the four truncated deviations is not
\* within 0.4 below 60
BorderStdDecided(img) ==
    LET gray == GrayArray(img)
        b == border_thickness(gray.h, gray.w)
    IN  \/ gray.h <= 2 * b
        \/ gray.w <= 2 * b
        \/ BorderStdTenths(gray, b) \notin (4 * 10 * BORDER_STD - 3)..(4 * 10 * BORDER_STD)

\* Every tile the model classifies is one the integer statistics decide
StatisticsDecided ==
    /\ call.fn = "is_blank_tile" => BorderStdDecided(call.image)
    /\ \A r \in DOMAIN rq : \A n \in DOMAIN rq[r].tiles : BorderStdDecided(rq[r].tiles[n].img)

\* The four tests of is_blank_tile on the tile of the call, each by itself
Test1 == WhiteCount(call.image) * BLANK_THRESHOLD.den
             > BLANK_THRESHOLD.num * call.image.w * call.image.h

Test2 == ~ StdAtLeast(ChannelStats(call.image), STD_BLANK, 1)

Test3 ==
    LET gray == GrayArray(call.image)
    IN  (SignificantCount(EdgesH(gray)) + SignificantCount(EdgesV(gray))) * 1000
            < call.image.w * call.image.h

Test4 ==
    LET gray == GrayArray(call.image)
    IN  is_border_frame(gray, EdgesH(gray), EdgesV(gray))

AbsEdgeCount(gray, b, border) ==
    Cardinality({p \in (0..(gray.h - 2)) \X (0..(gray.w - 1)) :
                    LET d == gray.at[p[1] + 1][p[2]] - gray.at[p[1]][p[2]]
                    IN  /\ (IF d < 0 THEN 0 - d ELSE d) > EDGE_LEVEL
                        /\ BorderMask(EdgesH(gray), b, p[1], p[2]) = border})
    + Cardinality({p \in (0..(gray.h - 1)) \X (0..(gray.w - 2)) :
                    LET d == gray.at[p[1]][p[2] + 1] - gray.at[p[1]][p[2]]
                    IN  /\ (IF d < 0 THEN 0 - d ELSE d) > EDGE_LEVEL
                        /\ BorderMask(EdgesV(gray), b, p[1], p[2]) = border})

\* C7: an adjacent pair of luminance samples a, b counts as a significant
\* edge exactly when |a - b| > 30, whichever of the two is larger, in the
\* count of the edge-density test and in the border and center counts.
C7_AbsoluteGradient ==
    ClassifierReturned =>
        LET gray == GrayArray(call.image)
            b == border_thickness(gray.h, gray.w)
        IN  /\ SignificantCount(EdgesH(gray)) + SignificantCount(EdgesV(gray))
                  = AbsEdgeCount(gray, b, TRUE) + AbsEdgeCount(gray, b, FALSE)
            /\ BorderCount(EdgesH(gray), b) + BorderCount(EdgesV(gray), b)
                  = AbsEdgeCount(gray, b, TRUE)
            /\ CenterCount(EdgesH(gray), b) + CenterCount(EdgesV(gray), b)
                  = AbsEdgeCount(gray, b, FALSE)

\* The tile of the call is white but for a black outline, t >= 1 pixels
\* thick, drawn k pixels in from the edges inside the border band, around a
\* white interior
ThinBlackFrame ==
    LET pat == call.image.page.pat
    IN  /\ call.fn = "is_blank_tile"
        /\ call.image.cw = call.image.w /\ call.image.ch = call.image.h
        /\ pat.kind = "frame" /\ pat.a = Black /\ pat.b = White
        /\ pat.t >= 1
        /\ pat.k + pat.t <= border_thickness(call.image.h, call.image.w)
        /\ call.image.w > 2 * (pat.k + pat.t)

\* C8: a white tile with a thin black frame inside the border band is
\* classified blank, and when the first three tests are negative
\* is_border_frame is what classifies it.
C8_FrameIsBlank ==
    (ClassifierReturned /\ ThinBlackFrame) =>
        /\ call.ret # 0
        /\ (~ Test1 /\ ~ Test2 /\ ~ Test3) => (Test4 /\ call.ret = 4)

\* A framed tile with a center region that the first three tests let pass
C8_Witness ==
    /\ ClassifierReturned /\ ThinBlackFrame
    /\ call.image.w >= 22
    /\ BLANK_THRESHOLD = DEFAULT_THRESHOLD
    /\ ~ Test1 /\ ~ Test2 /\ ~ Test3
    /\ call.ret = 4

\* The tile of the call is a checkerboard of two colours, at least one of
\* them dark, over the whole tile, with standard deviation >= 5 and edge
\* density >= 0.001
DenseChecker ==
    LET pat == call.image.page.pat
    IN  /\ call.fn = "is_blank_tile"
        /\ call.image.cw = call.image.w /\ call.image.ch = call.image.h
        /\ pat.kind = "checker"
        /\ Luminance(pat.a) < 128 \/ Luminance(pat.b) < 128
        /\ ~ Test2 /\ ~ Test3

\* C9 as claimed: dense content spread over the whole tile is classified
\* non-blank at the default threshold, for every tile size.
C9_DenseKeptAnySize ==
    (ClassifierReturned /\ DenseChecker /\ BLANK_THRESHOLD = DEFAULT_THRESHOLD) =>
        call.ret = 0

\* C9 amended: it is classified non-blank when the tile's side is at least
\* 22, and blank (by is_border_frame) when the side is at most 21, where
\* the border band covers both gradient maps.
C9_DenseKeptFrom22 ==
    (ClassifierReturned /\ DenseChecker /\ BLANK_THRESHOLD = DEFAULT_THRESHOLD) =>
        /\ call.image.w >= 22 => call.ret = 0
        /\ call.image.w <= 21 => call.ret = 4

\* A dense checkerboard on the smallest tile that is kept
C9_Witness ==
    /\ ClassifierReturned /\ DenseChecker /\ BLANK_THRESHOLD = DEFAULT_THRESHOLD
    /\ call.image.w = 22
    /\ call.ret = 0

\* C10: a tile whose pixels are all (255, 255, 255) is classified blank at
\* the default threshold 0.98, whatever its size.
C10_WhiteIsBlank ==
    ( /\ ClassifierReturned
      /\ BLANK_THRESHOLD = DEFAULT_THRESHOLD
      /\ \A x \in 0..(call.image.w - 1), y \in 0..(call.image.h - 1) :
            Pixel(call.image, x, y) = White )
    => call.ret # 0

\* An all-white tile of the largest side has been classified
C10_Witness ==
    /\ ClassifierReturned
    /\ BLANK_THRESHOLD = DEFAULT_THRESHOLD
    /\ call.image.w = MaxSide
    /\ call.image.page.pat = Solid(White)
    /\ call.ret = 1

-----------------------------------------------------------------------------
(* upload_file: the /upload handler *)

\* if image.mode != 'RGB': image = image.convert('RGB').  The rasters of the
\* model are RGB.
optimize_for_roboflow(image) == image

\* f"page_{i+1}_tile_r{row}_c{col}.jpg"
output_filename(i, row, col) ==
    "page_" \o ToString(i + 1) \o "_tile_r" \o ToString(row) \o "_c" \o ToString(col) \o ".jpg"

\* file.filename.lower().endswith('.pdf'), for a name [stem, ext]
IsPdfName(filename) == filename.ext \in {"pdf", "PDF", "Pdf"}

\* The locals of a request that has not run yet.  file is [present, name]:
\* the 'file' part of the form; doc is what pdf_to_images will render.
NewRequest(file, doc) ==
    [pc |-> "start", file |-> file, doc |-> doc,
     conversion_id |-> 0, images |-> <<>>, i |-> 0, tiles |-> <<>>, t |-> 0,
     converted_files |-> <<>>, total_tiles |-> 0, blank_tiles_filtered |-> 0,
     history |-> <<>>, response |-> [status |-> 0]]

\* Lines 266-293: the checks of the form, then conversion_id, file.save,
\* pdf_to_images and the empty accumulators.  uuid4 gives each request its
\* own id: the request's number.
Receive(r) ==
    /\ rq[r].pc = "start"
    /\ rq' = [rq EXCEPT ![r] =
          IF ~ rq[r].file.present
          THEN [@ EXCEPT !.pc = "done", !.response = [status |-> 400, error |-> "No file provided"]]
          ELSE IF rq[r].file.name.stem = "" /\ rq[r].file.name.ext = ""
          THEN [@ EXCEPT !.pc = "done", !.response = [status |-> 400, error |-> "No file selected"]]
          ELSE IF ~ IsPdfName(rq[r].file.name)
          THEN [@ EXCEPT !.pc = "done",
                         !.response = [status |-> 400, error |-> "Only PDF files are allowed"]]
          ELSE [@ EXCEPT !.pc = "page", !.conversion_id = r, !.images = rq[r].doc,
                         !.i = 0, !.converted_files = <<>>, !.total_tiles = 0,
                         !.blank_tiles_filtered = 0]]
    /\ UNCHANGED <<TILE_SIZE, OVERLAP, BLANK_THRESHOLD, call, history_file, output_files>>

\* Lines 295-300: the next page of `for i, image in enumerate(images)` is
\* tiled; an exception of tile_image is caught at line 349
TilePage(r) ==
    /\ rq[r].pc = "page"
    /\ rq[r].i < Len(rq[r].images)
    /\ LET res == tile_image(optimize_for_roboflow(rq[r].images[rq[r].i + 1]), TILE_SIZE, OVERLAP)
       IN  rq' = [rq EXCEPT ![r] =
              IF res.raised
              THEN [@ EXCEPT !.pc = "done",
                             !.response = [status |-> 500, error |-> "ZeroDivisionError"]]
              ELSE [@ EXCEPT !.pc = "tile", !.tiles = res.tiles, !.t = 1]]
    /\ UNCHANGED <<TILE_SIZE, OVERLAP, BLANK_THRESHOLD, call, history_file, output_files>>

\* The record appended to converted_files for a kept tile
FileRecord(i, tl) ==
    [filename |-> output_filename(i, tl.row, tl.col),
     page |-> i + 1, tile_row |-> tl.row, tile_col |-> tl.col]

ProcessTileUncounted(r) ==
    /\ rq[r].pc = "tile"
    /\ LET tl == rq[r].tiles[rq[r].t]
           last == rq[r].t = Len(rq[r].tiles)
           blank == is_blank_tile(tl.img, BLANK_THRESHOLD)
       IN  /\ rq' = [rq EXCEPT ![r] =
                 [@ EXCEPT !.converted_files =
                               IF blank THEN @ ELSE Append(@, FileRecord(rq[r].i, tl)),
                           !.total_tiles = IF blank THEN @ ELSE @ + 1,
                           !.t = IF last THEN @ ELSE @ + 1,
                           !.i = IF last THEN @ + 1 ELSE @,
                           !.pc = IF last THEN "page" ELSE "tile"]]
           /\ output_files' =
                 IF blank THEN output_files
                 ELSE output_files \cup
                         {<<rq[r].conversion_id, output_filename(rq[r].i, tl.row, tl.col)>>}
    /\ UNCHANGED <<TILE_SIZE, OVERLAP, BLANK_THRESHOLD, call, history_file>>

\* Lines 303-321: one turn of `for tile_img, row, col in tiles`; after the
\* last tile the page loop moves on
ProcessTile(r) ==
    /\ rq[r].pc = "tile"
    /\ LET tl == rq[r].tiles[rq[r].t]
           last == rq[r].t = Len(rq[r].tiles)
           blank == is_blank_tile(tl.img, BLANK_THRESHOLD)
       IN  /\ rq' = [rq EXCEPT ![r] =
                 [@ EXCEPT !.blank_tiles_filtered = IF blank THEN @ + 1 ELSE @,
                           !.converted_files =
                               IF blank THEN @ ELSE Append(@, FileRecord(rq[r].i, tl)),
                           !.total_tiles = IF blank THEN @ ELSE @ + 1,
                           !.t = IF last THEN @ ELSE @ + 1,
                           !.i = IF last THEN @ + 1 ELSE @,
                           !.pc = IF last THEN "page" ELSE "tile"]]
           /\ output_files' =
                 IF blank THEN output_files
                 ELSE output_files \cup
                         {<<rq[r].conversion_id, output_filename(rq[r].i, tl.row, tl.col)>>}
    /\ UNCHANGED <<TILE_SIZE, OVERLAP, BLANK_THRESHOLD, call, history_file>>

\* Line 324 after the last page: history = load_history()
LoadHistory(r) ==
    /\ rq[r].pc = "page"
    /\ rq[r].i >= Len(rq[r].images)
    /\ rq' = [rq EXCEPT ![r] = [@ EXCEPT !.pc = "save", !.history = history_file]]
    /\ UNCHANGED <<TILE_SIZE, OVERLAP, BLANK_THRESHOLD, call, history_file, output_files>>

\* history_entry of lines 325-333
HistoryEntry(q) ==
    [id |-> q.conversion_id, original_filename |-> q.file.name,
     page_count |-> Len(q.images), tile_count |-> q.total_tiles,
     blank_filtered |-> q.blank_tiles_filtered, files |-> q.converted_files]

\* Lines 334-347: history.insert(0, history_entry), save_history(history)
\* and the success response
SaveHistory(r) ==
    /\ rq[r].pc = "save"
    /\ LET history == <<HistoryEntry(rq[r])>> \o rq[r].history
       IN  /\ history_file' = history
           /\ rq' = [rq EXCEPT ![r] =
                 [@ EXCEPT !.pc = "done", !.history = history,
                           !.response = [status |-> 200, success |-> TRUE,
                                         conversion_id |-> rq[r].conversion_id,
                                         page_count |-> Len(rq[r].images),
                                         tile_count |-> rq[r].total_tiles,
                                         blank_filtered |-> rq[r].blank_tiles_filtered,
                                         files |-> rq[r].converted_files]]]
    /\ UNCHANGED <<TILE_SIZE, OVERLAP, BLANK_THRESHOLD, call, output_files>>

\* The documents uploaded in the model: pages smaller than a tile, of one
\* tile and of 2 x 2 tiles, blank, full of content or with content in one
\* corner
UploadDims == {UploadSide - 12, UploadSide, 2 * UploadSide - 2}

UploadDrawings ==
    {Solid(White), Checker(Black, White), Block(Black, White, UploadSide, UploadSide)}

UploadPages == {Page(w, h, pat) : w \in UploadDims, h \in UploadDims, pat \in UploadDrawings}

FirstPages ==
    {Page(2 * UploadSide - 2, 2 * UploadSide - 2, Block(Black, White, UploadSide, UploadSide)),
     Page(UploadSide, UploadSide, Checker(Black, White))}

RECURSIVE MorePages(_)
\* The documents of n pages: a first page of FirstPages, then any pages, the
\* single-page documents being all of UploadPages
MorePages(n) ==
    IF n = 1 THEN {<<p>> : p \in FirstPages}
    ELSE {Append(d, Page(2 * UploadSide - 2, 2 * UploadSide - 2, pat)) :
             d \in MorePages(n - 1), pat \in UploadDrawings}

Documents ==
    {<<p>> : p \in UploadPages}
    \cup UNION {MorePages(n) : n \in 2..MaxPages}

PdfFile == [present |-> TRUE, name |-> [stem |-> "plan", ext |-> "PDF"]]

OtherFiles ==
    {[present |-> FALSE, name |-> [stem |-> "", ext |-> ""]],
     [present |-> TRUE, name |-> [stem |-> "", ext |-> ""]],
     [present |-> TRUE, name |-> [stem |-> "notes", ext |-> "txt"]]}

\* The grid and threshold settings of the model: the valid ones and the
\* ones of section 7 (overlap >= tile_size, threshold outside [0, 1])
UploadOverlaps == {0, 2, UploadSide, UploadSide + 1}

UploadThresholds == {DEFAULT_THRESHOLD, [num |-> 3, den |-> 2]}

Init ==
    /\ TILE_SIZE = UploadSide
    /\ OVERLAP \in UploadOverlaps
    /\ BLANK_THRESHOLD \in UploadThresholds
    /\ call = [fn |-> "none", pc |-> "none"]
    /\ \/ \E doc \in Documents : rq = [r \in {1} |-> NewRequest(PdfFile, doc)]
       \/ \E file \in OtherFiles : rq = [r \in {1} |-> NewRequest(file, <<>>)]
    /\ history_file = <<>>
    /\ output_files = {}

Next ==
    \E r \in DOMAIN rq :
        \/ Receive(r)
        \/ TilePage(r)
        \/ ProcessTile(r)
        \/ LoadHistory(r)
        \/ SaveHistory(r)

Spec == Init /\ [][Next]_vars

-----------------------------------------------------------------------------
(* The handler's properties *)

\* <<a1, a2, a3>> comes before <<b1, b2, b3>> in lexicographic order
LexLess(a, b) ==
    \/ a[1] < b[1]
    \/ a[1] = b[1] /\ a[2] < b[2]
    \/ a[1] = b[1] /\ a[2] = b[2] /\ a[3] < b[3]

\* C3: the (row, col) tags of the list tile_image returns increase strictly
\* in lexicographic order, and the records upload_file appends to
\* converted_files increase strictly in (page, row, col) with page >= 1, so
\* the kept tiles stay in order and no two of them share a file name.
C3_RowMajor ==
    \A r \in DOMAIN rq :
        /\ \A m, n \in DOMAIN rq[r].tiles :
              m < n => LexLess(<<0, rq[r].tiles[m].row, rq[r].tiles[m].col>>,
                               <<0, rq[r].tiles[n].row, rq[r].tiles[n].col>>)
        /\ \A m, n \in DOMAIN rq[r].converted_files :
              LET f == rq[r].converted_files[m]
                  g == rq[r].converted_files[n]
              IN  /\ f.page >= 1
                  /\ m < n => /\ LexLess(<<f.page, f.tile_row, f.tile_col>>,
                                         <<g.page, g.tile_row, g.tile_col>>)
                              /\ f.filename # g.filename

\* A finished upload of two pages that kept tiles of both, in more than one
\* row, and filtered others
C3_Witness ==
    \E r \in DOMAIN rq :
        LET files == rq[r].converted_files
        IN  /\ rq[r].pc = "done" /\ rq[r].response.status = 200
            /\ Len(files) >= 3
            /\ rq[r].blank_tiles_filtered >= 1
            /\ files[1].page # files[Len(files)].page
            /\ \E n \in DOMAIN files : files[n].tile_row > 0
            /\ \E n \in DOMAIN files : files[n].tile_col > 0

\* overlap >= tile_size, tile_size <= 0 or a threshold outside [0, 1]
InvalidConfiguration ==
    \/ OVERLAP >= TILE_SIZE
    \/ TILE_SIZE <= 0
    \/ BLANK_THRESHOLD.num < 0
    \/ BLANK_THRESHOLD.num > BLANK_THRESHOLD.den

\* C5: an invalid configuration is rejected with an error before any page
\* is processed: tile_image emits no tile, no tile is classified, no output
\* file is written, no history record is added.
C5_InvalidConfigRejected ==
    InvalidConfiguration =>
        /\ output_files = {}
        /\ history_file = <<>>
        /\ \A r \in DOMAIN rq :
              /\ rq[r].tiles = <<>>
              /\ rq[r].converted_files = <<>>
              /\ rq[r].blank_tiles_filtered = 0
              /\ rq[r].pc = "done" => rq[r].response.status # 200

-----------------------------------------------------------------------------
(* The tiler's windows *)

\* The tile was padded: its crop did not fill the tile_size x tile_size canvas
Padded(tl) == <<tl.right - tl.left, tl.bottom - tl.top>> # <<tl.img.w, tl.img.h>>

\* C11: a page of exactly tile_size x tile_size yields one tile, tagged
\* (0, 0), whose crop window is the whole page (0, 0, tile_size, tile_size)
\* and which is not padded.
C11_ExactPage ==
    (TilerReturned /\ ValidGrid /\ call.image.w = TILE_SIZE /\ call.image.h = TILE_SIZE) =>
        /\ Len(call.ret.tiles) = 1
        /\ LET tl == call.ret.tiles[1]
           IN  /\ tl.row = 0 /\ tl.col = 0
               /\ <<tl.left, tl.top, tl.right, tl.bottom>> = <<0, 0, TILE_SIZE, TILE_SIZE>>
               /\ ~ Padded(tl)
               /\ tl.img = Crop(call.image, 0, 0, TILE_SIZE, TILE_SIZE)

\* A page of the size of the tile has been tiled with overlapping tiles
C11_Witness ==
    /\ TilerReturned /\ ValidGrid
    /\ call.image.w = TILE_SIZE /\ call.image.h = TILE_SIZE
    /\ TILE_SIZE >= 3 /\ OVERLAP >= 1
    /\ Len(call.ret.tiles) = 1

-----------------------------------------------------------------------------
(* The page loop's counters *)

\* rows * cols of a page, as tile_image computes them
PageCells(page) ==
    GridCount(page.w, OVERLAP, TILE_SIZE - OVERLAP) * GridCount(page.h, OVERLAP, TILE_SIZE - OVERLAP)

RECURSIVE CellsOfPages(_, _)
\* The grid cells of the first n pages
CellsOfPages(images, n) ==
    IF n = 0 THEN 0 ELSE PageCells(images[n]) + CellsOfPages(images, n - 1)

\* The tiles a request has classified so far: those of the pages it has
\* finished and those before the cursor in the page it is in
TilesDone(q) == CellsOfPages(q.images, q.i) + (IF q.pc = "tile" THEN q.t - 1 ELSE 0)

\* C12: conservation.  At every point of the page loop, and in the history
\* record and the response, tile_count + blank_filtered is the number of
\* grid cells of the pages processed so far, tile_count is the length of the
\* files list, and every tile of tile_image is either counted as filtered
\* or recorded as kept: the kept records are distinct cells of tiles already
\* classified, and the tiles not yet classified have no record.
C12_Conservation ==
    /\ \A r \in DOMAIN rq :
          LET q == rq[r]
          IN  /\ q.total_tiles + q.blank_tiles_filtered = TilesDone(q)
              /\ q.total_tiles = Len(q.converted_files)
              /\ \A n \in DOMAIN q.converted_files :
                    LET f == q.converted_files[n]
                    IN  /\ f.page <= q.i + 1
                        /\ (f.page = q.i + 1) =>
                              /\ q.pc = "tile"
                              /\ \E m \in 1..(q.t - 1) :
                                    q.tiles[m].row = f.tile_row /\ q.tiles[m].col = f.tile_col
              /\ (q.pc = "done" /\ q.response.status = 200) =>
                    /\ q.response.tile_count + q.response.blank_filtered
                          = CellsOfPages(q.images, Len(q.images))
                    /\ q.response.tile_count = Len(q.response.files)
                    /\ q.response.files = q.converted_files
    /\ \A n \in DOMAIN history_file :
          LET e == history_file[n]
          IN  /\ e.tile_count + e.blank_filtered
                    = CellsOfPages(rq[e.id].images, Len(rq[e.id].images))
              /\ e.tile_count = Len(e.files)
              /\ e.page_count = Len(rq[e.id].images)

\* An upload of two pages is recorded in the history with tiles kept and
\* tiles filtered
C12_Witness ==
    /\ Len(history_file) = 1
    /\ history_file[1].page_count = 2
    /\ history_file[1].tile_count >= 2
    /\ history_file[1].blank_filtered >= 2
    /\ rq[history_file[1].id].pc = "done"

\* The window of grid index idx would run past the extent and is clamped
Clamped(extent, idx) == idx * (TILE_SIZE - OVERLAP) + TILE_SIZE > extent

\* The call of the worked example: a 2000x1500 page, tile_size 1024, overlap 128
ExampleTiles == tile_image(Page(2000, 1500, Solid(White)), 1024, 128).tiles

\* C13: edge correction restores the full size.  For a valid
\* (tile_size, overlap), a window in a column > 0 (row > 0) that is clamped at
\* the right (bottom) edge of the page has its left (top) edge moved to
\* width - tile_size (height - tile_size), which is not negative, so that it
\* is tile_size wide (high) and inside the page; a tile is padded only if the
\* page is narrower or lower than tile_size; the 2000x1500 page at 1024/128
\* gives 3 columns by 2 rows whose last column and last row are shifted and
\* not padded.
C13_EdgeCorrection ==
    /\ (TilerReturned /\ ValidGrid) =>
          \A n \in DOMAIN call.ret.tiles :
             LET tl == call.ret.tiles[n]
             IN  /\ (tl.col > 0 /\ Clamped(call.image.w, tl.col)) =>
                       /\ tl.right = call.image.w
                       /\ tl.left = call.image.w - TILE_SIZE
                       /\ tl.left >= 0
                       /\ tl.right - tl.left = TILE_SIZE
                 /\ (tl.row > 0 /\ Clamped(call.image.h, tl.row)) =>
                       /\ tl.bottom = call.image.h
                       /\ tl.top = call.image.h - TILE_SIZE
                       /\ tl.top >= 0
                       /\ tl.bottom - tl.top = TILE_SIZE
                 /\ Padded(tl) => (call.image.w < TILE_SIZE \/ call.image.h < TILE_SIZE)
    /\ Len(ExampleTiles) = 6
    /\ \A n \in 1..6 :
          LET tl == ExampleTiles[n]
          IN  /\ tl.row \in 0..1 /\ tl.col \in 0..2
              /\ ~ Padded(tl)
              /\ (tl.col = 2) => (tl.left = 976 /\ tl.right = 2000)
              /\ (tl.col < 2) => (tl.left = tl.col * 896)
              /\ (tl.row = 1) => (tl.top = 476 /\ tl.bottom = 1500)
              /\ (tl.row = 0) => (tl.top = 0 /\ tl.bottom = 1024)

\* A tile in the last column and the last row of a page that is not a whole
\* number of steps: both of its windows are clamped and shifted
C13_Witness ==
    /\ TilerReturned /\ ValidGrid /\ OVERLAP >= 1
    /\ \E n \in DOMAIN call.ret.tiles :
          LET tl == call.ret.tiles[n]
          IN  /\ tl.col > 0 /\ Clamped(call.image.w, tl.col)
              /\ tl.row > 0 /\ Clamped(call.image.h, tl.row)
              /\ tl.left # tl.col * (TILE_SIZE - OVERLAP)
              /\ tl.top # tl.row * (TILE_SIZE - OVERLAP)

\* Horizontally adjacent grid cells: b is the cell right of a
RightOf(a, b) == a.row = b.row /\ b.col = a.col + 1

\* Vertically adjacent grid cells: b is the cell below a
Below(a, b) == a.col = b.col /\ b.row = a.row + 1

\* C14 as stated: with overlap = 0, for every page size and tile_size >= 1,
\* the windows of adjacent grid cells share no pixel column (row) and every
\* window starts at (col * step, row * step); only the right and bottom
\* edges are clamped.
C14_AbutNoShift ==
    (TilerReturned /\ TILE_SIZE >= 1 /\ OVERLAP = 0) =>
        /\ \A n \in DOMAIN call.ret.tiles :
              LET tl == call.ret.tiles[n]
              IN  /\ tl.left = tl.col * TILE_SIZE
                  /\ tl.top = tl.row * TILE_SIZE
                  /\ tl.right = Min(tl.left + TILE_SIZE, call.image.w)
                  /\ tl.bottom = Min(tl.top + TILE_SIZE, call.image.h)
        /\ \A n, m \in DOMAIN call.ret.tiles :
              LET a == call.ret.tiles[n]
                  b == call.ret.tiles[m]
              IN  /\ RightOf(a, b) => a.right <= b.left
                  /\ Below(a, b) => a.bottom <= b.top

\* C14, amended: with overlap = 0 a window starts at (col * tile_size,
\* row * tile_size) and shares nothing with its neighbours, except a last
\* column (row) of index > 0 on a page whose width (height) is not a multiple
\* of tile_size: that window is moved to start at width - tile_size
\* (height - tile_size), is full size, and shares
\* tile_size - (width mod tile_size) pixel columns (rows) with the window
\* before it.
C14_AbutExceptLast ==
    (TilerReturned /\ TILE_SIZE >= 1 /\ OVERLAP = 0) =>
        /\ \A n \in DOMAIN call.ret.tiles :
              LET tl == call.ret.tiles[n]
                  lastcol == tl.col > 0 /\ (tl.col + 1) * TILE_SIZE > call.image.w
                  lastrow == tl.row > 0 /\ (tl.row + 1) * TILE_SIZE > call.image.h
              IN  /\ tl.left = IF lastcol THEN call.image.w - TILE_SIZE ELSE tl.col * TILE_SIZE
                  /\ tl.top = IF lastrow THEN call.image.h - TILE_SIZE ELSE tl.row * TILE_SIZE
                  /\ tl.right = Min(tl.col * TILE_SIZE + TILE_SIZE, call.image.w)
                  /\ tl.bottom = Min(tl.row * TILE_SIZE + TILE_SIZE, call.image.h)
        /\ \A n, m \in DOMAIN call.ret.tiles :
              LET a == call.ret.tiles[n]
                  b == call.ret.tiles[m]
              IN  /\ RightOf(a, b) =>
                        a.right - b.left =
                            IF (b.col + 1) * TILE_SIZE > call.image.w
                            THEN TILE_SIZE - (call.image.w % TILE_SIZE) ELSE 0
                  /\ Below(a, b) =>
                        a.bottom - b.top =
                            IF (b.row + 1) * TILE_SIZE > call.image.h
                            THEN TILE_SIZE - (call.image.h % TILE_SIZE) ELSE 0

\* With overlap 0, a last column that was moved left and shares pixel
\* columns with the column before it, next to columns that abut
C14_Witness ==
    /\ TilerReturned /\ OVERLAP = 0 /\ TILE_SIZE >= 2
    /\ \E n, m, k \in DOMAIN call.ret.tiles :
          /\ RightOf(call.ret.tiles[n], call.ret.tiles[m])
          /\ RightOf(call.ret.tiles[m], call.ret.tiles[k])
          /\ call.ret.tiles[n].right = call.ret.tiles[m].left
          /\ call.ret.tiles[m].right > call.ret.tiles[k].left
          /\ call.ret.tiles[k].left # call.ret.tiles[k].col * TILE_SIZE

\* The page's width and height are positive multiples of step
WholeSteps ==
    /\ call.image.w >= 1 /\ call.image.w % (TILE_SIZE - OVERLAP) = 0
    /\ call.image.h >= 1 /\ call.image.h % (TILE_SIZE - OVERLAP) = 0

\* C15 as stated: for a valid (tile_size, overlap) and a page whose width and
\* height are positive multiples of step (width = step or height = step
\* included), no returned tile is padded: every crop window is exactly
\* tile_size x tile_size.
C15_WholeStepsUnpadded ==
    (TilerReturned /\ ValidGrid /\ WholeSteps) =>
        \A n \in DOMAIN call.ret.tiles :
           LET tl == call.ret.tiles[n]
           IN  /\ ~ Padded(tl)
               /\ <<tl.right - tl.left, tl.bottom - tl.top>> = <<TILE_SIZE, TILE_SIZE>>

\* C15, amended: for a valid (tile_size, overlap) and a page whose width and
\* height are positive multiples of step, no returned tile is padded and
\* every crop window is tile_size x tile_size when the width and the height
\* are both at least tile_size; when the width or the height is below
\* tile_size (as width = step is when overlap > 0) every returned tile is
\* padded.
C15_WholeStepsAtLeastTile ==
    (TilerReturned /\ ValidGrid /\ WholeSteps) =>
        \A n \in DOMAIN call.ret.tiles :
           LET tl == call.ret.tiles[n]
           IN  IF call.image.w >= TILE_SIZE /\ call.image.h >= TILE_SIZE
               THEN /\ ~ Padded(tl)
                    /\ <<tl.right - tl.left, tl.bottom - tl.top>> = <<TILE_SIZE, TILE_SIZE>>
               ELSE /\ Padded(tl)
                    /\ <<tl.right - tl.left, tl.bottom - tl.top>> # <<TILE_SIZE, TILE_SIZE>>

\* A page of whole steps, larger than a tile, whose second column ends
\* beyond the page and is moved back: several tiles, none padded
C15_Witness ==
    /\ TilerReturned /\ ValidGrid /\ WholeSteps /\ OVERLAP >= 1
    /\ call.image.w > TILE_SIZE /\ call.image.h >= TILE_SIZE
    /\ \E n \in DOMAIN call.ret.tiles :
          LET tl == call.ret.tiles[n]
          IN  /\ tl.col = 1
              /\ tl.left # TILE_SIZE - OVERLAP
              /\ ~ Padded(tl)

-----------------------------------------------------------------------------
(* The border thickness of is_border_frame *)

\* is_border_frame is entered with a gray array of some shape
InitThickness ==
    /\ TILE_SIZE = 1
    /\ OVERLAP = 0
    /\ BLANK_THRESHOLD = DEFAULT_THRESHOLD
    /\ \E height \in 1..MaxEdge, width \in 1..MaxEdge :
          call = [fn |-> "is_border_frame", pc |-> "call",
                  height |-> height, width |-> width, ret |-> 0]
    /\ rq = NoRequests
    /\ history_file = <<>>
    /\ output_files = {}

\* height, width = gray_array.shape; border_thickness = max(...)
CallBorderThickness ==
    /\ call.fn = "is_border_frame" /\ call.pc = "call"
    /\ call' = [call EXCEPT !.pc = "thickness",
                            !.ret = border_thickness(call.height, call.width)]
    /\ UNCHANGED <<TILE_SIZE, OVERLAP, BLANK_THRESHOLD, rq, history_file, output_files>>

SpecThickness == InitThickness /\ [][CallBorderThickness]_vars

ThicknessComputed == call.fn = "is_border_frame" /\ call.pc = "thickness"

\* r is 0.1 * m rounded to the nearest integer (either way at a tie)
NearestTenth(m, r) == (10 * r - m) \in -5..5

\* C16 as stated: the border thickness is max(round(0.1 * min(w, h)), 10),
\* one tenth of the smaller dimension rounded to the nearest integer with a
\* minimum of 10: 102 for a 1024 tile and 102 for a 1016 tile.
C16_RoundedTenth ==
    /\ ThicknessComputed =>
          \E r \in 0..MaxEdge :
             /\ NearestTenth(Min(call.width, call.height), r)
             /\ call.ret = Max(r, 10)
    /\ border_thickness(1024, 1024) = 102
    /\ border_thickness(1016, 1016) = 102

\* C16, amended: the border thickness is max(floor(0.1 * min(w, h)), 10), one
\* tenth of the smaller dimension rounded down with a minimum of 10: 102 for
\* a 1024 tile and 101 for a 1016 tile.
C16_TruncatedTenth ==
    /\ ThicknessComputed =>
          \E f \in 0..MaxEdge :
             /\ 10 * f <= Min(call.width, call.height)
             /\ Min(call.width, call.height) < 10 * f + 10
             /\ call.ret = Max(f, 10)
    /\ border_thickness(1024, 1024) = 102
    /\ border_thickness(1016, 1016) = 101

\* A gray array whose smaller dimension has a tenth above 10 that rounds
\* up: the thickness is the tenth rounded down
C16_Witness ==
    /\ ThicknessComputed
    /\ call.width # call.height
    /\ Min(call.width, call.height) % 10 >= 6
    /\ call.ret > 10

-----------------------------------------------------------------------------
(* The two sub-checks of is_border_frame *)

\* Position <<y, x>> of arr is fewer than b places from one of its four sides
InBand(arr, b, y, x) == Min(Min(y, arr.h - 1 - y), Min(x, arr.w - 1 - x)) < b

\* The significant edges of a gradient map in the band, and outside it
BandEdges(edges, b) ==
    Cardinality({p \in Positions(edges) :
                    edges.at[p[1]][p[2]] > EDGE_LEVEL /\ InBand(edges, b, p[1], p[2])})

InnerEdges(edges, b) ==
    Cardinality({p \in Positions(edges) :
                    edges.at[p[1]][p[2]] > EDGE_LEVEL /\ ~ InBand(edges, b, p[1], p[2])})

\* The center sub-rectangle of a gray array is empty
CenterEmpty(gray, b) == gray.h <= 2 * b \/ gray.w <= 2 * b

\* Sub-check (a) on the tile of the call
SubCheckA ==
    LET gray == GrayArray(call.image)
        b == border_thickness(gray.h, gray.w)
        total == SignificantCount(EdgesH(gray)) + SignificantCount(EdgesV(gray))
        border_edges == BandEdges(EdgesH(gray), b) + BandEdges(EdgesV(gray), b)
        center_edges == InnerEdges(EdgesH(gray), b) + InnerEdges(EdgesV(gray), b)
    IN  /\ total > 0
        /\ 10 * border_edges > 8 * total
        /\ 1000 * center_edges < 2 * gray.w * gray.h

\* Sub-check (b) on the tile of the call
SubCheckB ==
    LET gray == GrayArray(call.image)
        b == border_thickness(gray.h, gray.w)
        center == RegionStats(gray, b, gray.h - b, b, gray.w - b)
    IN  /\ ~ CenterEmpty(gray, b)
        /\ BorderStdTenths(gray, b) >= 4 * 10 * 15
        /\ ~ StdAtLeast(center, 8, 1)
        /\ center.sum > 240 * center.n

\* C17: is_border_frame returns True exactly when sub-check (a) or sub-check
\* (b) fires.  (a): there are significant edges, more than 0.8 of them in the
\* border band and fewer than 0.002 * width * height outside it, where band
\* and center split each gradient map so that border_edges + center_edges is
\* the significant-edge count of the edge-density test.  (b): the center
\* sub-rectangle is not empty, the four border strips' standard deviations
\* average above 15, the center's standard deviation is below 8 and its mean
\* above 240.  With an empty center, (b) gives no positive result.
C17_EitherSubCheck ==
    ClassifierReturned =>
        LET gray == GrayArray(call.image)
            edges_h == EdgesH(gray)
            edges_v == EdgesV(gray)
            b == border_thickness(gray.h, gray.w)
        IN  /\ is_border_frame(gray, edges_h, edges_v) = (SubCheckA \/ SubCheckB)
            /\ BorderCount(edges_h, b) + CenterCount(edges_h, b) = SignificantCount(edges_h)
            /\ BorderCount(edges_v, b) + CenterCount(edges_v, b) = SignificantCount(edges_v)
            /\ BorderCount(edges_h, b) = BandEdges(edges_h, b)
            /\ BorderCount(edges_v, b) = BandEdges(edges_v, b)
            /\ CenterEmpty(gray, b) =>
                  /\ ~ detect_rectangular_border(gray, b)
                  /\ is_border_frame(gray, edges_h, edges_v) = SubCheckA

\* A black outline around a faint checkerboard: the checkerboard's edges in
\* the center defeat sub-check (a), the outline and the pale, even center
\* satisfy sub-check (b), and the tile is classified a border frame
C17_Witness ==
    /\ ClassifierReturned
    /\ call.ret = 4
    /\ ~ SubCheckA
    /\ SubCheckB

-----------------------------------------------------------------------------
(* Two uploads at once *)

\* The documents of the two requests: one page each
ConcurrentDocuments == {<<p>> : p \in FirstPages}

\* app.run serves each request in a thread of its own: two /upload requests
\* are in progress together, under a valid configuration
InitConcurrent ==
    /\ TILE_SIZE = UploadSide
    /\ OVERLAP \in {0, 2}
    /\ BLANK_THRESHOLD = DEFAULT_THRESHOLD
    /\ call = [fn |-> "none", pc |-> "none"]
    /\ \E d1 \in ConcurrentDocuments, d2 \in ConcurrentDocuments :
          rq = [r \in {1, 2} |-> NewRequest(PdfFile, IF r = 1 THEN d1 ELSE d2)]
    /\ history_file = <<>>
    /\ output_files = {}

SpecConcurrent == InitConcurrent /\ [][Next]_vars

\* The request has returned the success response
Succeeded(r) == rq[r].pc = "done" /\ rq[r].response.status = 200

\* C18: no conversion record is lost.  After any uploads that returned
\* success, the history file holds an entry for each of their
\* conversion_ids, the most recent first, also when two requests run
\* together and their load_history / insert / save_history steps interleave.
C18_NoRecordLost ==
    /\ \A r \in DOMAIN rq :
          Succeeded(r) => \E n \in DOMAIN history_file : history_file[n].id = rq[r].conversion_id
    /\ (history_file # <<>>) => Succeeded(history_file[1].id)

-----------------------------------------------------------------------------
(* Tiles of side at most 20 *)

\* The tile of the call is square with a side of at most 20 pixels
SmallSquare == call.image.w = call.image.h /\ call.image.w <= 20

\* C19: for a square tile of side at most 20 the border band, 10 thick on
\* each side, covers the whole tile and the center is empty; is_border_frame
\* returns True whenever the tile has a significant edge, and is_blank_tile
\* returns True whatever the pixels and the threshold: no such tile is kept.
C19_SmallTilesBlank ==
    (ClassifierReturned /\ SmallSquare) =>
        LET gray == GrayArray(call.image)
            edges_h == EdgesH(gray)
            edges_v == EdgesV(gray)
            b == border_thickness(gray.h, gray.w)
        IN  /\ b = 10
            /\ CenterEmpty(gray, b)
            /\ CenterCount(edges_h, b) + CenterCount(edges_v, b) = 0
            /\ (SignificantCount(edges_h) + SignificantCount(edges_v) > 0) =>
                  is_border_frame(gray, edges_h, edges_v)
            /\ call.ret # 0

\* A 20 x 20 checkerboard of black and white, which the first three tests
\* pass on, is classified blank by is_border_frame
C19_Witness ==
    /\ ClassifierReturned /\ SmallSquare
    /\ call.image.w = 20
    /\ call.image.page.pat = Checker(Black, White)
    /\ BLANK_THRESHOLD = DEFAULT_THRESHOLD
    /\ call.ret = 4

====
